---- MODULE Spec2Model ----
(***************************************************************************)
(* A model of the 3darr program (src/3darr.c): parse three extents,        *)
(* allocate a jagged 3D array of unsigned long, populate it with           *)
(* elem_pow(2,i) * elem_pow(3,j) * elem_pow(5,k), print it, release it.    *)
(*                                                                         *)
(* An elem (unsigned long, LP64) is modelled by its object representation: *)
(* ElemBytes bytes, least significant first, every byte in 0..ByteBase-1.  *)
(* All elem arithmetic is therefore exactly arithmetic modulo 2^64.        *)
(* A size_t that is used as a loop bound is an integer; the model only     *)
(* runs extents small enough to be enumerated.                             *)
(***************************************************************************)
EXTENDS Integers, Sequences, FiniteSets, TLC

VARIABLES
    argc,    \* main's argc
    argv,    \* argv[1..argc-1], each a sequence of characters
    pc,      \* the control point
    x, y, z, \* main's x, y, z (Undef until parsed)
    allocs,  \* main's allocs, written through mk_arr's pointer
    arr,     \* the elem *** held by mk_arr and then by main
    heap,    \* the blocks malloc has returned, indexed by address
    i, j, k, \* the loop indices of mk_arr and of print_arr
    fi, fj,  \* the marker parameters i, j of the running free function
    fmode,   \* which free function runs: "incomplete" | "complete" | "none"
    i_, j_,  \* the loop indices of the free functions
    ecode,   \* the exit code the caller of the free function will exit with
    out,     \* the lines written to stdout
    err,     \* the lines written to stderr
    status,  \* "running" | "EXIT_SUCCESS" | "EXIT_FAILURE"
    ub,      \* TRUE once the run has executed undefined behaviour
    trace,   \* history: the externally visible events in program order
    pw,      \* elem_pow's frame (x, y, result) when it is run on its own
    rq       \* mk_arr's three size computations when they are run on their own

vars == <<argc, argv, pc, x, y, z, allocs, arr, heap, i, j, k, fi, fj, fmode,
          i_, j_, ecode, out, err, status, ub, trace, pw, rq>>

----------------------------------------------------------------------------
(* Bounds of the model. *)

\* Extents 0..MaxDim are run for every combination of x, y and z.
MaxDim == 2

----------------------------------------------------------------------------
(* elem: unsigned long arithmetic on the byte representation. *)

ElemBytes == 8
ByteBase == 256

Bytes == 1..ElemBytes

\* The elem whose value is the small number n (n < ByteBase).
ElemLit(n) == <<n>> \o [b \in 1..(ElemBytes - 1) |-> 0]

RECURSIVE ConvSum(_, _, _, _)
\* Sum of a[p] * b[n+1-p] for p in 1..m: column n of the schoolbook product.
ConvSum(a, b, n, m) ==
    IF m = 0 THEN 0 ELSE a[m] * b[n + 1 - m] + ConvSum(a, b, n, m - 1)

RECURSIVE Carry(_, _, _, _)
\* Propagate carries through the columns, dropping the carry out of the top
\* byte (the reduction modulo 2^64 of unsigned arithmetic).
Carry(cols, n, c, acc) ==
    IF n > ElemBytes THEN acc
    ELSE LET t == cols[n] + c
         IN  Carry(cols, n + 1, t \div ByteBase, Append(acc, t % ByteBase))

\* a * b on unsigned long.
ElemMul(a, b) ==
    Carry([n \in Bytes |-> ConvSum(a, b, n, n)], 1, 0, <<>>)

RECURSIVE elem_pow_loop(_, _, _)
\* The while (true) loop of elem_pow, entered with the given locals:
\* if ((y & 1) == 1) result *= x; y >>= 1; if (y == 0) break; x *= x.
\* (The test r1 = r1 /\ b1 = b1 is always true; it makes TLC compute both
\* products before the next round instead of nesting them.)
elem_pow_loop(result, base, e) ==
    LET r1 == IF e % 2 = 1 THEN ElemMul(result, base) ELSE result
        e1 == e \div 2
        b1 == ElemMul(base, base)
    IN  IF e1 = 0 THEN r1
        ELSE IF r1 = r1 /\ b1 = b1 THEN elem_pow_loop(r1, b1, e1)
        ELSE <<>>

elem_pow(base, e) == elem_pow_loop(ElemLit(1), base, e)

\* Mutant of ElemValue: the bases of j and k are interchanged.
ElemValue_SwappedBases(ci, cj, ck) ==
    ElemMul(ElemMul(elem_pow(ElemLit(2), ci), elem_pow(ElemLit(5), cj)),
            elem_pow(ElemLit(3), ck))

\* The value mk_arr stores at (i, j, k).
ElemValue(ci, cj, ck) ==
    ElemMul(ElemMul(elem_pow(ElemLit(2), ci), elem_pow(ElemLit(3), cj)),
            elem_pow(ElemLit(5), ck))

----------------------------------------------------------------------------
(* Argument strings and get_arg_size_t. *)

\* The terminating nul of a C string.
NUL == "NUL"

DigitChars == <<"0", "1", "2", "3", "4", "5", "6", "7", "8", "9">>

IsDigit(c) == \E d \in 1..Len(DigitChars) : DigitChars[d] = c

DigitOf(c) == (CHOOSE d \in 1..Len(DigitChars) : DigitChars[d] = c) - 1

\* isspace in the C locale (the vertical tab has no TLA+ escape).
IsSpace(c) == c \in {" ", "\t", "\n", "\f", "\r"}

\* s[p] of a C string: the nul at and past its end.
CharAt(s, p) == IF p <= Len(s) THEN s[p] ELSE NUL

RECURSIVE SkipSpace(_, _)
SkipSpace(s, p) == IF IsSpace(CharAt(s, p)) THEN SkipSpace(s, p + 1) ELSE p

RECURSIVE SkipDigits(_, _)
SkipDigits(s, p) == IF IsDigit(CharAt(s, p)) THEN SkipDigits(s, p + 1) ELSE p

RECURSIVE StripZeros(_)
StripZeros(ds) ==
    IF Len(ds) > 1 /\ ds[1] = "0" THEN StripZeros(Tail(ds)) ELSE ds

\* The decimal digits of UINTMAX_MAX = 2^64 - 1.
UintmaxDigits ==
    <<1, 8, 4, 4, 6, 7, 4, 4, 0, 7, 3, 7, 0, 9, 5, 5, 1, 6, 1, 5>>

RECURSIVE LexGreater(_, _, _)
\* Digit strings of equal length: ds > limit, compared from position p.
LexGreater(ds, limit, p) ==
    IF p > Len(ds) THEN FALSE
    ELSE IF DigitOf(ds[p]) # limit[p] THEN DigitOf(ds[p]) > limit[p]
    ELSE LexGreater(ds, limit, p + 1)

\* The digit string denotes a number above UINTMAX_MAX (strtoumax: ERANGE).
Overflows(ds) ==
    LET sig == StripZeros(ds)
    IN  \/ Len(sig) > Len(UintmaxDigits)
        \/ Len(sig) = Len(UintmaxDigits) /\ LexGreater(sig, UintmaxDigits, 1)

RECURSIVE DigitsValue(_, _)
DigitsValue(ds, acc) ==
    IF ds = <<>> THEN acc ELSE DigitsValue(Tail(ds), acc * 10 + DigitOf(ds[1]))

\* strtoumax(s, &endptr, 10): optional white space, optional sign, digits.
\* endp is the position endptr points at; with no digits it is the start.
strtoumax(s) ==
    LET p0 == SkipSpace(s, 1)
        p1 == IF CharAt(s, p0) \in {"+", "-"} THEN p0 + 1 ELSE p0
        p2 == SkipDigits(s, p1)
        ds == SubSeq(s, p1, p2 - 1)
    IN  IF p2 = p1
        THEN [endp |-> 1, erange |-> FALSE, val |-> 0]
        ELSE [endp |-> p2, erange |-> Overflows(ds),
              val |-> IF Overflows(ds) THEN -1 ELSE DigitsValue(ds, 0)]

\* Mutant of get_arg_size_t: the test *endptr != '\0' is left out.
get_arg_size_t_NoEndCheck(arg) ==
    LET r == strtoumax(arg)
    IN  IF CharAt(arg, SkipSpace(arg, 1)) = "-"
        THEN [msg |-> "argument %s must be positive\n", val |-> -1]
        ELSE IF CharAt(arg, 1) = NUL
        THEN [msg |-> "failed to parse argument %s\n", val |-> -1]
        ELSE IF r.erange
        THEN [msg |-> "argument %s is too large\n", val |-> -1]
        ELSE [msg |-> "", val |-> r.val]

\* get_arg_size_t(arg, name): the message it prints before exit(EXIT_FAILURE),
\* or "" and the value it returns.  val > SIZE_MAX cannot happen where
\* uintmax_t and size_t are both 64 bits wide.
get_arg_size_t(arg) ==
    LET r == strtoumax(arg)
    IN  IF CharAt(arg, SkipSpace(arg, 1)) = "-"
        THEN [msg |-> "argument %s must be positive\n", val |-> -1]
        ELSE IF CharAt(arg, 1) = NUL \/ CharAt(arg, r.endp) # NUL
        THEN [msg |-> "failed to parse argument %s\n", val |-> -1]
        ELSE IF r.erange
        THEN [msg |-> "argument %s is too large\n", val |-> -1]
        ELSE [msg |-> "", val |-> r.val]

----------------------------------------------------------------------------
(* The inputs the model runs. *)

RECURSIVE Dec(_)
\* The decimal numeral of n.
Dec(n) ==
    IF n < 10 THEN <<DigitChars[n + 1]>>
    ELSE Dec(n \div 10) \o <<DigitChars[(n % 10) + 1]>>

\* Numerals of the small extents, and numerals get_arg_size_t also accepts.
GoodArgs == {Dec(n) : n \in 0..MaxDim} \cup {<<" ", "1">>, <<"+", "2">>}

\* Arguments get_arg_size_t rejects: negative, empty, not a number, trailing
\* characters, white space only, a bare sign, 2^64.
BadArgs ==
    { <<"-", "1">>, <<" ", "-", "0">>, <<>>, <<"x">>, <<"1", "x">>, <<"2", " ">>,
      <<" ">>, <<"+">>,
      <<"1","8","4","4","6","7","4","4","0","7","3","7","0","9","5","5","1","6","1","6">> }

\* Extents at which one of the three powers passes 2^64: 2^64 and 2^65 at
\* x = 66, 3^41 at y = 42, 5^28 at z = 29.
WideDims ==
    { <<8 * ElemBytes + 2, 1, 1>>, <<1, 42, 1>>, <<1, 1, 29>> }

Argvs ==
    {<<a, b, c>> : a \in GoodArgs \cup BadArgs, b \in GoodArgs \cup BadArgs,
                   c \in GoodArgs \cup BadArgs}
    \cup {<<Dec(d[1]), Dec(d[2]), Dec(d[3])>> : d \in WideDims}
    \cup {<<>>, <<Dec(1)>>, <<Dec(1), Dec(1)>>, <<Dec(1), Dec(1), Dec(1), Dec(1)>>}

----------------------------------------------------------------------------
(* Memory: malloc, free, and the loads and stores through arr. *)

NULL == 0

\* The value of pw and of rq in the runs of the whole program.
NoFrame == <<>>

\* The indeterminate value of an object that was never written.
Undef == -1

\* The indeterminate content of a slot of a fresh block: a pointer slot in
\* the outer and middle blocks, an elem slot in an inner block.
Fresh(kind) == IF kind = "inner" THEN <<>> ELSE Undef

\* The block a successful malloc returns for n slots.  kind, ci and cj are
\* history: the call site in mk_arr and its loop indices.
NewBlock(kind, n, ci, cj) ==
    [kind |-> kind, ci |-> ci, cj |-> cj, n |-> n,
     slot |-> [s \in 1..n |-> Fresh(kind)], live |-> TRUE, frees |-> 0]

\* Mutant of Incr: the increment of *allocs is forgotten.
Incr_Forgot(n) == n

\* ++*allocs.
Incr(n) == n + 1

\* The address malloc returns next.
NextPtr(h) == Len(h) + 1

IsBlock(h, p) == p \in 1..Len(h)

\* p[idx] may be accessed: p points to a live block with more than idx slots.
Valid(h, p, idx) == IsBlock(h, p) /\ h[p].live /\ idx >= 0 /\ idx < h[p].n

\* p[idx] may be read: it may be accessed and has been written.
Readable(h, p, idx) ==
    Valid(h, p, idx) /\ h[p].slot[idx + 1] # Fresh(h[p].kind)

\* The pointer read from p[idx]; Undef where the read is undefined.
LoadPtr(h, p, idx) == IF Readable(h, p, idx) THEN h[p].slot[idx + 1] ELSE Undef

\* p[idx] = v.
Store(h, p, idx, v) ==
    IF Valid(h, p, idx) THEN [h EXCEPT ![p].slot[idx + 1] = v] ELSE h

\* free(p) is defined: p is null or a block that has not been freed.
FreeOk(h, p) == p = NULL \/ (IsBlock(h, p) /\ h[p].live)

\* free(p): a no-op on null, else the block is released (frees counts the
\* calls that named it).
Free(h, p) ==
    IF IsBlock(h, p) THEN [h EXCEPT ![p].live = FALSE, ![p].frees = @ + 1]
    ELSE h

----------------------------------------------------------------------------
(* Output. *)

Line(fmt, args) == [fmt |-> fmt, args |-> args]

AllocsFmt == "successfully allocated %zu times\n"
ElemFmt == "arr[%zu][%zu][%zu] = %lu\n"

Perror(what) == Line("perror", <<what>>)

Ev(e, p) == [e |-> e, p |-> p]

\* print_allocs(n) when printf succeeds (w) or fails: what it adds to stdout,
\* to stderr and to the history.
PrintAllocsOut(n, w) == IF w THEN <<Line(AllocsFmt, <<n>>)>> ELSE <<>>
PrintAllocsErr(w) == IF w THEN <<>> ELSE <<Perror("value output")>>
PrintAllocsEv(w) ==
    IF w THEN <<Ev("out", 0)>> ELSE <<Ev("out_fail", 0), Ev("err", 0)>>

----------------------------------------------------------------------------
(* The program. *)

Init ==
    /\ argv \in Argvs
    /\ argc = Len(argv) + 1
    /\ pc = "ensure_usage"
    /\ x = Undef /\ y = Undef /\ z = Undef
    /\ allocs = Undef
    /\ arr = Undef
    /\ heap = <<>>
    /\ i = Undef /\ j = Undef /\ k = Undef
    /\ fi = Undef /\ fj = Undef /\ fmode = "none"
    /\ i_ = Undef /\ j_ = Undef
    /\ ecode = "none"
    /\ out = <<>>
    /\ err = <<>>
    /\ status = "running"
    /\ ub = FALSE
    /\ trace = <<>>
    /\ pw = NoFrame
    /\ rq = NoFrame

mainVars == <<argc, argv, x, y, z>>
unitVars == <<pw, rq>>
loopVars == <<i, j, k>>
freeVars == <<fi, fj, fmode, i_, j_>>
memVars == <<allocs, arr, heap, ub>>
ioVars == <<out, err>>

\* ensure_usage(argc, argv[0]).
EnsureUsage ==
    /\ pc = "ensure_usage"
    /\ IF argc # 4
       THEN /\ err' = Append(err, Line("wrong usage!\nusage: %s <x> <y> <z>\n", <<>>))
            /\ trace' = Append(trace, Ev("err", 0))
            /\ ecode' = "EXIT_FAILURE"
            /\ pc' = "exit"
       ELSE /\ pc' = "get_x"
            /\ UNCHANGED <<err, trace, ecode>>
    /\ UNCHANGED <<unitVars, mainVars, loopVars, freeVars, memVars, out, status>>

\* Mutant of ArgNames: the names passed for argv[2] and argv[3] are
\* interchanged.
ArgNames_Swapped == <<"x", "z", "y">>

\* The names main passes to get_arg_size_t for argv[1], argv[2], argv[3].
ArgNames == <<"x", "y", "z">>

\* size_t <name> = get_arg_size_t(argv[n], "<name>"), n = 1, 2, 3.
GetArg(n) ==
    /\ pc = "get_" \o ArgNames[n]
    /\ LET r == get_arg_size_t(argv[n])
       IN  IF r.msg # ""
           THEN /\ err' = Append(err, Line(r.msg, <<ArgNames[n]>>))
                /\ trace' = Append(trace, Ev("err", 0))
                /\ ecode' = "EXIT_FAILURE"
                /\ pc' = "exit"
                /\ UNCHANGED <<x, y, z>>
           ELSE /\ x' = IF n = 1 THEN r.val ELSE x
                /\ y' = IF n = 2 THEN r.val ELSE y
                /\ z' = IF n = 3 THEN r.val ELSE z
                /\ pc' = IF n < 3 THEN "get_" \o ArgNames[n + 1] ELSE "mk_arr"
                /\ UNCHANGED <<err, trace, ecode>>
    /\ UNCHANGED <<unitVars, argc, argv, loopVars, freeVars, memVars, out, status>>

\* Mutant of AllocFailReport: print_allocs is called before perror.
AllocFailReport_CountFirst(n, w) ==
    [err |-> PrintAllocsErr(w) \o <<Perror("array allocation")>>,
     out |-> PrintAllocsOut(n, w),
     ev  |-> PrintAllocsEv(w) \o <<Ev("err", 0)>>]

\* Mutant of AllocFailReport: the failure branch reports the error but
\* does not call print_allocs.
AllocFailReport_NoCount(n, w) ==
    [err |-> <<Perror("array allocation")>>,
     out |-> <<>>,
     ev  |-> <<Ev("err", 0)>>]

\* The failure branch of an allocation in mk_arr, up to the call that
\* releases: perror("array allocation"); print_allocs(*allocs).  w: whether
\* print_allocs's printf succeeds.
AllocFailReport(n, w) ==
    [err |-> <<Perror("array allocation")>> \o PrintAllocsErr(w),
     out |-> PrintAllocsOut(n, w),
     ev  |-> <<Ev("err", 0)>> \o PrintAllocsEv(w)]

\* mk_arr: *allocs = 0; arr = malloc(x * sizeof(elem **)), and its failure
\* branch.  ok: whether malloc returns a block.
MallocOuter ==
    /\ pc = "mk_arr"
    /\ \E ok \in BOOLEAN, w \in BOOLEAN :
         IF ok
         THEN /\ w
              /\ heap' = Append(heap, NewBlock("outer", x, Undef, Undef))
              /\ arr' = NextPtr(heap)
              /\ allocs' = Incr(0)
              /\ i' = 0
              /\ trace' = Append(trace, Ev("malloc", NextPtr(heap)))
              /\ pc' = "mk_i"
              /\ UNCHANGED <<out, err, ecode>>
         ELSE LET rep == AllocFailReport(0, w)
              IN  /\ arr' = NULL
                  /\ allocs' = 0
                  /\ err' = err \o rep.err
                  /\ out' = out \o rep.out
                  /\ trace' = Append(trace, Ev("malloc", NULL)) \o rep.ev
                  /\ ecode' = "EXIT_FAILURE"
                  /\ pc' = "exit"
                  /\ UNCHANGED <<heap, i>>
    /\ UNCHANGED <<unitVars, mainVars, j, k, freeVars, ub, status>>

\* Mutant of CallFreeIncomplete: the inner loop index is not passed on, as
\* in free_incomplete_arr(arr, y, i, 0) at both call sites.
CallFreeIncomplete_ForgetJ(ci, cj) ==
    /\ fmode' = "incomplete"
    /\ fi' = ci
    /\ fj' = 0
    /\ i_' = 0
    /\ j_' = j_
    /\ ecode' = "EXIT_FAILURE"
    /\ pc' = "fs_i"

\* The call free_incomplete_arr(arr, y, ci, cj) followed by exit(EXIT_FAILURE).
CallFreeIncomplete(ci, cj) ==
    /\ fmode' = "incomplete"
    /\ fi' = ci
    /\ fj' = cj
    /\ i_' = 0
    /\ j_' = j_
    /\ ecode' = "EXIT_FAILURE"
    /\ pc' = "fs_i"

\* Mutant of CallFreeComplete: the last outer index is left out.
CallFreeComplete_OffByOne(c) ==
    /\ fmode' = "complete"
    /\ fi' = x - 1
    /\ fj' = fj
    /\ i_' = 0
    /\ j_' = j_
    /\ ecode' = c
    /\ pc' = "fs_i"

\* The call free_complete_arr(arr, x, y), after which the caller exits with
\* code c.
CallFreeComplete(c) ==
    /\ fmode' = "complete"
    /\ fi' = x
    /\ fj' = fj
    /\ i_' = 0
    /\ j_' = j_
    /\ ecode' = c
    /\ pc' = "fs_i"

\* mk_arr, outer loop body: arr[i] = malloc(y * sizeof(elem *)), and its
\* failure branch.
MallocMiddle ==
    /\ pc = "mk_i"
    /\ i < x
    /\ \E ok \in BOOLEAN, w \in BOOLEAN :
         IF ok
         THEN /\ w
              /\ heap' = Store(Append(heap, NewBlock("middle", y, i, Undef)),
                               arr, i, NextPtr(heap))
              /\ ub' = (ub \/ ~Valid(heap, arr, i))
              /\ allocs' = Incr(allocs)
              /\ j' = 0
              /\ trace' = Append(trace, Ev("malloc", NextPtr(heap)))
              /\ pc' = "mk_j"
              /\ UNCHANGED <<out, err, ecode, freeVars>>
         ELSE LET rep == AllocFailReport(allocs, w)
              IN  /\ heap' = Store(heap, arr, i, NULL)
                  /\ ub' = (ub \/ ~Valid(heap, arr, i))
                  /\ err' = err \o rep.err
                  /\ out' = out \o rep.out
                  /\ trace' = Append(trace, Ev("malloc", NULL)) \o rep.ev
                  /\ CallFreeIncomplete(i, 0)
                  /\ UNCHANGED <<allocs, j>>
    /\ UNCHANGED <<unitVars, mainVars, arr, i, k, status>>

\* mk_arr: the outer loop ends and mk_arr returns arr.
MkReturn ==
    /\ pc = "mk_i"
    /\ i >= x
    /\ pc' = "print_allocs"
    /\ trace' = Append(trace, Ev("mk_arr_return", arr))
    /\ UNCHANGED <<unitVars, mainVars, loopVars, freeVars, memVars, ioVars, ecode, status>>

\* mk_arr, middle loop body: arr[i][j] = malloc(z * sizeof(elem)), and its
\* failure branch.
MallocInner ==
    /\ pc = "mk_j"
    /\ j < y
    /\ LET mid == LoadPtr(heap, arr, i)
       IN  \E ok \in BOOLEAN, w \in BOOLEAN :
             IF ok
             THEN /\ w
                  /\ heap' = Store(Append(heap, NewBlock("inner", z, i, j)),
                                   mid, j, NextPtr(heap))
                  /\ ub' = (ub \/ ~Valid(heap, mid, j))
                  /\ allocs' = Incr(allocs)
                  /\ k' = 0
                  /\ trace' = Append(trace, Ev("malloc", NextPtr(heap)))
                  /\ pc' = "mk_k"
                  /\ UNCHANGED <<out, err, ecode, freeVars>>
             ELSE LET rep == AllocFailReport(allocs, w)
                  IN  /\ heap' = Store(heap, mid, j, NULL)
                      /\ ub' = (ub \/ ~Valid(heap, mid, j))
                      /\ err' = err \o rep.err
                      /\ out' = out \o rep.out
                      /\ trace' = Append(trace, Ev("malloc", NULL)) \o rep.ev
                      /\ CallFreeIncomplete(i, j)
                      /\ UNCHANGED <<allocs, k>>
    /\ UNCHANGED <<unitVars, mainVars, arr, i, j, status>>

\* mk_arr: the middle loop ends; i++.
MkNextI ==
    /\ pc = "mk_j"
    /\ j >= y
    /\ i' = i + 1
    /\ pc' = "mk_i"
    /\ UNCHANGED <<unitVars, mainVars, j, k, freeVars, memVars, ioVars, ecode, status, trace>>

\* A fill loop whose bound is off by one: for (k = 0; k <= z; k++).
StoreElem_OffByOne ==
    /\ pc = "mk_k"
    /\ k <= z
    /\ LET inner == LoadPtr(heap, LoadPtr(heap, arr, i), j)
       IN  /\ heap' = Store(heap, inner, k, ElemValue(i, j, k))
           /\ ub' = (ub \/ ~Valid(heap, inner, k))
           /\ trace' = Append(trace, Ev("store", inner))
    /\ k' = k + 1
    /\ UNCHANGED <<unitVars, mainVars, allocs, arr, i, j, freeVars, ioVars, ecode, status, pc>>

\* mk_arr, inner loop body:
\* arr[i][j][k] = elem_pow(2, i) * elem_pow(3, j) * elem_pow(5, k).
StoreElem ==
    /\ pc = "mk_k"
    /\ k < z
    /\ LET inner == LoadPtr(heap, LoadPtr(heap, arr, i), j)
       IN  /\ heap' = Store(heap, inner, k, ElemValue(i, j, k))
           /\ ub' = (ub \/ ~Valid(heap, inner, k))
           /\ trace' = Append(trace, Ev("store", inner))
    /\ k' = k + 1
    /\ UNCHANGED <<unitVars, mainVars, allocs, arr, i, j, freeVars, ioVars, ecode, status, pc>>

\* Mutant of MkNextJ: the fill loop is left one element early.
MkNextJ_OneEarly ==
    /\ pc = "mk_k"
    /\ k >= z - 1
    /\ j' = j + 1
    /\ pc' = "mk_j"
    /\ UNCHANGED <<unitVars, mainVars, i, k, freeVars, memVars, ioVars, ecode, status, trace>>

\* mk_arr: the inner loop ends; j++.
MkNextJ ==
    /\ pc = "mk_k"
    /\ k >= z
    /\ j' = j + 1
    /\ pc' = "mk_j"
    /\ UNCHANGED <<unitVars, mainVars, i, k, freeVars, memVars, ioVars, ecode, status, trace>>

\* main: if (!print_allocs(allocs)) { perror; free_complete_arr; return
\* EXIT_FAILURE; } and otherwise the call of print_arr.
MainPrintAllocs ==
    /\ pc = "print_allocs"
    /\ \E w \in BOOLEAN :
         /\ out' = out \o PrintAllocsOut(allocs, w)
         /\ IF w
            THEN /\ err' = err
                 /\ trace' = trace \o PrintAllocsEv(w)
                 /\ i' = 0
                 /\ pc' = "pr_i"
                 /\ UNCHANGED <<freeVars, ecode>>
            ELSE /\ err' = err \o PrintAllocsErr(w) \o <<Perror("value output")>>
                 /\ trace' = trace \o PrintAllocsEv(w) \o <<Ev("err", 0)>>
                 /\ i' = i
                 /\ CallFreeComplete("EXIT_FAILURE")
    /\ UNCHANGED <<unitVars, mainVars, j, k, memVars, status>>

\* print_arr: the outer loop is entered for i.
PrEnterI ==
    /\ pc = "pr_i"
    /\ i < x
    /\ j' = 0
    /\ pc' = "pr_j"
    /\ UNCHANGED <<unitVars, mainVars, i, k, freeVars, memVars, ioVars, ecode, status, trace>>

\* print_arr returns; main: free_complete_arr(arr, x, y); return EXIT_SUCCESS.
PrReturn ==
    /\ pc = "pr_i"
    /\ i >= x
    /\ CallFreeComplete("EXIT_SUCCESS")
    /\ UNCHANGED <<unitVars, mainVars, loopVars, memVars, ioVars, status, trace>>

\* Mutant of PrEnterJ: the inner loop starts at k = 1.
PrEnterJ_SkipFirst ==
    /\ pc = "pr_j"
    /\ j < y
    /\ k' = 1
    /\ pc' = "pr_k"
    /\ UNCHANGED <<unitVars, mainVars, i, j, freeVars, memVars, ioVars, ecode, status, trace>>

\* print_arr: the middle loop is entered for j.
PrEnterJ ==
    /\ pc = "pr_j"
    /\ j < y
    /\ k' = 0
    /\ pc' = "pr_k"
    /\ UNCHANGED <<unitVars, mainVars, i, j, freeVars, memVars, ioVars, ecode, status, trace>>

\* print_arr: the middle loop ends; i++.
PrNextI ==
    /\ pc = "pr_j"
    /\ j >= y
    /\ i' = i + 1
    /\ pc' = "pr_i"
    /\ UNCHANGED <<unitVars, mainVars, j, k, freeVars, memVars, ioVars, ecode, status, trace>>

\* The elem read from arr[ci][cj][ck]; <<>> where the read is undefined.
LoadElem(h, a, ci, cj, ck) ==
    LET inner == LoadPtr(h, LoadPtr(h, a, ci), cj)
    IN  IF Readable(h, inner, ck) THEN h[inner].slot[ck + 1] ELSE <<>>

\* Mutant of PrintElem: after a failed printf the error is reported and the
\* loop goes on.
PrintElem_Continue ==
    /\ pc = "pr_k"
    /\ k < z
    /\ LET inner == LoadPtr(heap, LoadPtr(heap, arr, i), j)
           v == LoadElem(heap, arr, i, j, k)
       IN  /\ ub' = (ub \/ ~Readable(heap, inner, k))
           /\ \E w \in BOOLEAN :
                IF w
                THEN /\ out' = Append(out, Line(ElemFmt, <<i, j, k, v>>))
                     /\ trace' = trace \o <<Ev("read", inner), Ev("out", 0)>>
                     /\ err' = err
                ELSE /\ err' = Append(err, Perror("value output"))
                     /\ trace' = trace \o <<Ev("read", inner), Ev("out_fail", 0),
                                            Ev("err", 0)>>
                     /\ out' = out
    /\ k' = k + 1
    /\ UNCHANGED <<unitVars, mainVars, i, j, allocs, arr, heap, status, freeVars, ecode, pc>>

\* print_arr, inner loop body: printf of arr[i][j][k], and on failure perror,
\* free_complete_arr(arr, x, y), exit(EXIT_FAILURE).
PrintElem ==
    /\ pc = "pr_k"
    /\ k < z
    /\ LET inner == LoadPtr(heap, LoadPtr(heap, arr, i), j)
           v == LoadElem(heap, arr, i, j, k)
       IN  /\ ub' = (ub \/ ~Readable(heap, inner, k))
           /\ \E w \in BOOLEAN :
                IF w
                THEN /\ out' = Append(out, Line(ElemFmt, <<i, j, k, v>>))
                     /\ trace' = trace \o <<Ev("read", inner), Ev("out", 0)>>
                     /\ k' = k + 1
                     /\ UNCHANGED <<err, freeVars, ecode, pc>>
                ELSE /\ err' = Append(err, Perror("value output"))
                     /\ trace' = trace \o <<Ev("read", inner), Ev("out_fail", 0),
                                            Ev("err", 0)>>
                     /\ CallFreeComplete("EXIT_FAILURE")
                     /\ UNCHANGED <<out, k>>
    /\ UNCHANGED <<unitVars, mainVars, i, j, allocs, arr, heap, status>>

\* Mutant of PrNextJ: print_arr releases each inner block once it has
\* printed its elements.
PrNextJ_FreeRow ==
    /\ pc = "pr_k"
    /\ k >= z
    /\ LET inner == LoadPtr(heap, LoadPtr(heap, arr, i), j)
       IN  /\ heap' = Free(heap, inner)
           /\ ub' = (ub \/ ~FreeOk(heap, inner))
           /\ trace' = Append(trace, Ev("free", inner))
    /\ j' = j + 1
    /\ pc' = "pr_j"
    /\ UNCHANGED <<unitVars, mainVars, i, k, freeVars, allocs, arr, ioVars, ecode, status>>

\* print_arr: the inner loop ends; j++.
PrNextJ ==
    /\ pc = "pr_k"
    /\ k >= z
    /\ j' = j + 1
    /\ pc' = "pr_j"
    /\ UNCHANGED <<unitVars, mainVars, i, k, freeVars, memVars, ioVars, ecode, status, trace>>

\* The step free(p): the heap, the undefined-behaviour flag and the history.
DoFree(p) ==
    /\ heap' = Free(heap, p)
    /\ ub' = (ub \/ ~FreeOk(heap, p))
    /\ trace' = Append(trace, Ev("free", p))

freeFrame == <<unitVars, mainVars, loopVars, allocs, arr, ioVars, ecode, status, fi, fj, fmode>>

\* Mutant of FsEnter: the middle block is released on entering its row,
\* before the inner blocks it points to.
FsEnter_MiddleFirst ==
    /\ pc = "fs_i"
    /\ i_ < fi
    /\ DoFree(LoadPtr(heap, arr, i_))
    /\ j_' = 0
    /\ pc' = "fs_j"
    /\ UNCHANGED <<freeFrame, i_>>

\* free_sub_arr_up_to: the outer loop is entered for i_.
FsEnter ==
    /\ pc = "fs_i"
    /\ i_ < fi
    /\ j_' = 0
    /\ pc' = "fs_j"
    /\ UNCHANGED <<freeFrame, i_, heap, ub, trace>>

\* free_sub_arr_up_to returns to free_incomplete_arr, which starts its loop,
\* or to free_complete_arr.
FsReturn ==
    /\ pc = "fs_i"
    /\ i_ >= fi
    /\ IF fmode = "incomplete"
       THEN j_' = 0 /\ pc' = "fi_j"
       ELSE j_' = j_ /\ pc' = "free_arr"
    /\ UNCHANGED <<freeFrame, i_, heap, ub, trace>>

\* free_sub_arr_up_to, inner loop body: free(arr[i_][j]).
FsFreeInner ==
    /\ pc = "fs_j"
    /\ j_ < y
    /\ DoFree(LoadPtr(heap, LoadPtr(heap, arr, i_), j_))
    /\ j_' = j_ + 1
    /\ UNCHANGED <<freeFrame, i_, pc>>

\* free_sub_arr_up_to: the inner loop ends; free(arr[i_]); i_++.
FsFreeMiddle ==
    /\ pc = "fs_j"
    /\ j_ >= y
    /\ DoFree(LoadPtr(heap, arr, i_))
    /\ i_' = i_ + 1
    /\ pc' = "fs_i"
    /\ UNCHANGED <<freeFrame, j_>>

\* free_incomplete_arr, loop body: free(arr[i][j_]).
FiFreeInner ==
    /\ pc = "fi_j"
    /\ j_ < fj
    /\ DoFree(LoadPtr(heap, LoadPtr(heap, arr, fi), j_))
    /\ j_' = j_ + 1
    /\ UNCHANGED <<freeFrame, i_, pc>>

\* Mutant of FiFreeMiddle: free(arr[i]) is left out.
FiFreeMiddle_Skip ==
    /\ pc = "fi_j"
    /\ j_ >= fj
    /\ pc' = "free_arr"
    /\ UNCHANGED <<freeFrame, i_, j_, heap, ub, trace>>

\* free_incomplete_arr: the loop ends; free(arr[i]).
FiFreeMiddle ==
    /\ pc = "fi_j"
    /\ j_ >= fj
    /\ DoFree(LoadPtr(heap, arr, fi))
    /\ pc' = "free_arr"
    /\ UNCHANGED <<freeFrame, i_, j_>>

\* free_incomplete_arr and free_complete_arr: free(arr), and the return to
\* the caller, which exits.
FreeArr ==
    /\ pc = "free_arr"
    /\ DoFree(arr)
    /\ pc' = "exit"
    /\ UNCHANGED <<freeFrame, i_, j_>>

\* exit(ecode), or main's return of ecode.
Exit ==
    /\ pc = "exit"
    /\ status' = ecode
    /\ trace' = Append(trace, Ev("exit", 0))
    /\ pc' = "exited"
    /\ UNCHANGED <<unitVars, mainVars, loopVars, freeVars, memVars, ioVars, ecode>>

Next ==
    \/ EnsureUsage
    \/ \E n \in 1..3 : GetArg(n)
    \/ MallocOuter
    \/ MallocMiddle
    \/ MkReturn
    \/ MallocInner
    \/ MkNextI
    \/ StoreElem
    \/ MkNextJ
    \/ MainPrintAllocs
    \/ PrEnterI
    \/ PrReturn
    \/ PrEnterJ
    \/ PrNextI
    \/ PrintElem
    \/ PrNextJ
    \/ FsEnter
    \/ FsReturn
    \/ FsFreeInner
    \/ FsFreeMiddle
    \/ FiFreeInner
    \/ FiFreeMiddle
    \/ FreeArr
    \/ Exit

Spec == Init /\ [][Next]_vars

----------------------------------------------------------------------------
(* Vocabulary of the properties. *)

\* mk_arr has returned to main (free_complete_arr is only called after it).
MkReturned ==
    pc \in {"print_allocs", "pr_i", "pr_j", "pr_k"} \/ fmode = "complete"

\* An allocation call of mk_arr has failed: the outer one, or one of those
\* that call free_incomplete_arr.
AllocFailed == arr = NULL \/ fmode = "incomplete"

Exited == pc = "exited"

Blocks == 1..Len(heap)

BlocksOf(kind) == {b \in Blocks : heap[b].kind = kind}

\* The positions of the events e in the history.
Events(e) == {n \in 1..Len(trace) : trace[n].e = e}

\* Every free call named null or a block malloc had returned.
FreesNameBlocks ==
    \A n \in Events("free") : trace[n].p = NULL \/ trace[n].p \in Blocks

\* Every block was named by exactly one free call and no call was undefined.
AllReleasedOnce ==
    /\ \A b \in Blocks : heap[b].frees = 1 /\ ~heap[b].live
    /\ FreesNameBlocks
    /\ ~ub

RECURSIVE RefAddFrom(_, _, _, _)
\* Bytewise addition with carry from byte n on, the carry out of the top
\* byte dropped: (a + b) mod 2^64, by the school method.
RefAddFrom(a, b, n, c) ==
    IF n > ElemBytes THEN <<>>
    ELSE <<(a[n] + b[n] + c) % ByteBase>>
         \o RefAddFrom(a, b, n + 1, (a[n] + b[n] + c) \div ByteBase)

RefAdd(a, b) == RefAddFrom(a, b, 1, 0)

RECURSIVE RefTimes(_, _)
\* m * a mod 2^64 for a small number m >= 1, by repeated addition.
RefTimes(m, a) == IF m = 1 THEN a ELSE RefAdd(a, RefTimes(m - 1, a))

RECURSIVE RefScale(_, _, _)
\* m^e * a mod 2^64, multiplying by m one factor at a time.  (The test
\* a1 = a1 is always true; it makes TLC compute each product in turn.)
RefScale(m, e, a) ==
    LET a1 == RefTimes(m, a)
    IN  IF e = 0 THEN a
        ELSE IF a1 = a1 THEN RefScale(m, e - 1, a1)
        ELSE <<>>

\* 2^i * 3^j * 5^k mod 2^64, computed without elem_pow and without ElemMul.
RefValue(ci, cj, ck) ==
    RefScale(5, ck, RefScale(3, cj, RefScale(2, ci, <<1, 0, 0, 0, 0, 0, 0, 0>>)))

IsElemLine(l) == l.fmt = ElemFmt
IsAllocsLine(l) == l.fmt = AllocsFmt

\* Coordinates (a1, a2, a3) before (b1, b2, b3) in lexicographic order.
LexLess(a, b) ==
    \/ a[1] < b[1]
    \/ a[1] = b[1] /\ a[2] < b[2]
    \/ a[1] = b[1] /\ a[2] = b[2] /\ a[3] < b[3]

----------------------------------------------------------------------------
(* Properties. *)

\* C1: when an allocation call of mk_arr fails (outer, middle at i, inner at
\* (i, j)), the cleanup run before exit releases exactly the blocks whose
\* allocation had succeeded: at exit every block malloc returned has been
\* named by exactly one free call, and every free call named such a block
\* (or null, which releases nothing).
C1_FailureCleanupExact ==
    (Exited /\ AllocFailed) => AllReleasedOnce

\* C1 witness: the run exited after the inner allocation at (1, 1) failed
\* with y = 2, so earlier outer indices, earlier inner blocks of index 1 and
\* its middle block all had to be released.
C1_Witness ==
    /\ Exited /\ fmode = "incomplete" /\ fi = 1 /\ fj = 1 /\ y = 2
    /\ Len(heap) = 6

\* C2: on every exit path taken after mk_arr has returned (normal completion,
\* failed allocation-count line, failed element line), at process end each of
\* the 1 + x*y + x blocks mk_arr allocated has been released exactly once.
C2_TeardownExact ==
    (Exited /\ MkReturned) =>
        /\ Len(heap) = 1 + x + x * y
        /\ AllReleasedOnce

\* C2 witness: a 2 x 2 x 2 array was torn down after an element line failed
\* to print, three lines into the output.
C2_Witness ==
    /\ Exited /\ MkReturned /\ status = "EXIT_FAILURE"
    /\ x = 2 /\ y = 2 /\ z = 2 /\ Len(out) = 4

\* C3: when every allocation succeeds, the count mk_arr stores in *allocs,
\* and that main prints, is 1 + x + x*y (whatever z is), and exactly x*y of
\* the allocations are inner-level ones.
C3_AllocCount ==
    MkReturned =>
        /\ allocs = 1 + x + x * y
        /\ Cardinality(BlocksOf("inner")) = x * y
        /\ Cardinality(BlocksOf("middle")) = x
        /\ (out # <<>> => out[1] = Line(AllocsFmt, <<1 + x + x * y>>))

\* C3 witness: the count line of a 2 x 2 x z array has been printed.
C3_Witness ==
    /\ MkReturned /\ x = 2 /\ y = 2 /\ z = 1
    /\ out # <<>> /\ out[1].args = <<7>>

\* C4: the value mk_arr stores at (i, j, k), and the value later printed for
\* that coordinate, is 2^i * 3^j * 5^k reduced modulo 2^64.  Stated where the
\* element (i, j, k - 1) has just been stored, and where its line has just
\* been printed.
C4_ValueRule ==
    /\ (pc = "mk_k" /\ k > 0) =>
            LoadElem(heap, arr, i, j, k - 1) = RefValue(i, j, k - 1)
    /\ (pc = "pr_k" /\ k > 0) =>
            /\ out # <<>>
            /\ out[Len(out)] = Line(ElemFmt, <<i, j, k - 1, RefValue(i, j, k - 1)>>)

\* C4 witness: the line for (0, 41, 0) has just been printed; 3^41 exceeds
\* 2^64, so the printed value is a reduced one.
C4_Witness ==
    /\ pc = "pr_k" /\ i = 0 /\ j = 41 /\ k = 1
    /\ IsElemLine(out[Len(out)])
    /\ out[Len(out)].args[4] # <<>>

\* C5: on a run where every allocation and every write succeeds, stdout holds
\* the allocation-count line first and then exactly x*y*z element lines, one
\* per coordinate triple inside the array, in strictly increasing
\* lexicographic order of (i, j, k).
C5_PrintOrder ==
    (Exited /\ status = "EXIT_SUCCESS") =>
        /\ Len(out) = 1 + x * y * z
        /\ IsAllocsLine(out[1])
        /\ \A n \in 2..Len(out) :
              /\ IsElemLine(out[n])
              /\ out[n].args[1] \in 0..(x - 1)
              /\ out[n].args[2] \in 0..(y - 1)
              /\ out[n].args[3] \in 0..(z - 1)
              /\ n > 2 => LexLess(out[n - 1].args, out[n].args)

\* C5 witness: a 2 x 2 x 2 run ended successfully with all eight lines.
C5_Witness ==
    /\ Exited /\ status = "EXIT_SUCCESS"
    /\ x = 2 /\ y = 2 /\ z = 2 /\ Len(out) = 9

\* The values stored in the array are pairwise different over the positions
\* (block, slot) of its inner blocks.
ValuesUnique ==
    \A b1 \in BlocksOf("inner"), b2 \in BlocksOf("inner") :
        \A k1 \in 1..heap[b1].n, k2 \in 1..heap[b2].n :
            (b1 # b2 \/ k1 # k2) => heap[b1].slot[k1] # heap[b2].slot[k2]

\* C6: the array is populated with unique values: when mk_arr returns, the
\* values stored at any two distinct coordinate triples differ.
C6_UniqueValues ==
    pc = "print_allocs" => ValuesUnique

\* The events that follow the n-th event of the history.
After(n) == SubSeq(trace, n + 1, Len(trace))

\* t, from position m on, is a run of free calls closed by the exit.
ReleaseThenExit(t, m) ==
    /\ Len(t) >= m
    /\ \A q \in m..(Len(t) - 1) : t[q].e = "free"
    /\ t[Len(t)].e = "exit"

\* The position of the allocation call that failed.
FailedMalloc == CHOOSE n \in Events("malloc") : trace[n].p = NULL

\* C7 as stated: after an allocation failure the allocation count is written
\* to stdout first, then the error to stderr, then the partial structure is
\* released, then the process exits with the failure code.
C7_CountBeforeError ==
    (Exited /\ AllocFailed) =>
        LET t == After(FailedMalloc)
        IN  /\ Len(t) >= 2
            /\ t[1].e = "out"
            /\ t[2].e = "err"
            /\ ReleaseThenExit(t, 3)
            /\ status = "EXIT_FAILURE"

\* C7 amended: after an allocation failure the error is written to stderr
\* first, then the allocation count so far is written to stdout (or, if that
\* write fails, an output error is written to stderr), then the partial
\* structure is released, then the process exits with the failure code.
C7_ErrorBeforeCount ==
    (Exited /\ AllocFailed) =>
        LET t == After(FailedMalloc)
        IN  /\ Len(t) >= 2
            /\ t[1].e = "err"
            /\ err[1] = Perror("array allocation")
            /\ \/ /\ t[2].e = "out"
                  /\ out = <<Line(AllocsFmt, <<allocs>>)>>
                  /\ ReleaseThenExit(t, 3)
               \/ /\ t[2].e = "out_fail"
                  /\ out = <<>>
                  /\ Len(t) >= 3 /\ t[3].e = "err"
                  /\ ReleaseThenExit(t, 4)
            /\ status = "EXIT_FAILURE"

\* C7 witness: the inner allocation at (1, 1) failed, the count line was
\* written, and the run has exited.
C7_Witness ==
    /\ Exited /\ fmode = "incomplete" /\ fi = 1 /\ fj = 1
    /\ out # <<>> /\ Events("free") # {}

\* The position of the failed write to stdout after mk_arr returned.
FailedWrite == CHOOSE n \in Events("out_fail") : TRUE

\* C8: once the write of the allocation-count line (success path) or of an
\* element line fails, no further line is written to stdout, the error is
\* reported to stderr before anything is released, and the process exits with
\* the failure code.
C8_OutputFailureTerminal ==
    (Exited /\ MkReturned /\ Events("out_fail") # {}) =>
        LET t == After(FailedWrite)
        IN  /\ Cardinality(Events("out_fail")) = 1
            /\ \A q \in 1..Len(t) : t[q].e \notin {"out", "read", "store", "malloc"}
            /\ Len(out) = Cardinality(Events("out"))
            /\ Len(t) >= 1 /\ t[1].e = "err"
            /\ \E m \in 2..3 :
                  /\ \A q \in 1..(m - 1) : t[q].e = "err"
                  /\ ReleaseThenExit(t, m)
            /\ Events("free") # {}
            /\ status = "EXIT_FAILURE"

\* C8 witness: in a 2 x 2 x 2 run the sixth element line failed to print and
\* the run has exited.
C8_Witness ==
    /\ Exited /\ MkReturned /\ Events("out_fail") # {}
    /\ x = 2 /\ y = 2 /\ z = 2 /\ Len(out) = 6

\* Every argument of a three-argument command line is one get_arg_size_t
\* must accept (BadArgs lists the ones it must reject).
ArgsAcceptable == argc = 4 /\ \A n \in 1..3 : argv[n] \notin BadArgs

\* C9: the process exits with the success code if and only if there are
\* three arguments, all three are accepted, every allocation call succeeds
\* and every write to stdout succeeds; otherwise with the failure code.
C9_ExitCode ==
    Exited =>
        /\ status \in {"EXIT_SUCCESS", "EXIT_FAILURE"}
        /\ status = "EXIT_SUCCESS" <=>
              /\ ArgsAcceptable
              /\ \A n \in Events("malloc") : trace[n].p # NULL
              /\ Events("out_fail") = {}

\* C9 witness: the command line " 1" "+2" "2" ran to a successful exit.
C9_Witness ==
    /\ Exited /\ status = "EXIT_SUCCESS"
    /\ argv = << <<" ", "1">>, <<"+", "2">>, <<"2">> >>
    /\ Len(out) = 5

\* The first argument of the command line that must be rejected.
FirstBad == CHOOSE n \in 1..3 : argv[n] \in BadArgs /\ \A m \in 1..(n - 1) : argv[m] \notin BadArgs

\* C10: if the argument count is wrong or one of x, y, z is rejected, no
\* allocation call is ever made, nothing is written to stdout, the process
\* exits with the failure code, and (arguments being checked in the order
\* x, y, z) the one error line names the first rejected argument.
C10_RejectBeforeWork ==
    ~ArgsAcceptable =>
        /\ heap = <<>>
        /\ out = <<>>
        /\ Events("malloc") = {}
        /\ Exited =>
              /\ status = "EXIT_FAILURE"
              /\ Len(err) = 1
              /\ argc = 4 => err[1].args = << <<"x", "y", "z">>[FirstBad] >>

\* C10 witness: x was accepted, y and z both had to be rejected, and the run
\* exited naming y.
C10_Witness ==
    /\ Exited /\ argc = 4
    /\ argv[1] = <<"2">> /\ argv[2] = <<"-", "1">> /\ argv[3] = <<"x">>
    /\ err[1].args = <<"y">>

\* The three extents have been parsed and at least one of them is zero.
ZeroExtent == z # Undef /\ (x = 0 \/ y = 0 \/ z = 0)

\* No allocation call and no write to stdout has failed so far.
NothingFailed ==
    /\ \A n \in Events("malloc") : trace[n].p # NULL
    /\ Events("out_fail") = {}

LiveBlocks == {b \in Blocks : heap[b].live}

LiveTags == {<<heap[b].kind, heap[b].ci, heap[b].cj>> : b \in LiveBlocks}

\* The outer block and the complete rows of outer indices below ci.
RowsBefore(ci) ==
    {<<"outer", Undef, Undef>>}
        \cup {<<"middle", a, Undef>> : a \in 0..(ci - 1)}
        \cup {<<"inner", a, b>> : a \in 0..(ci - 1), b \in 0..(y - 1)}

\* The inner blocks of outer index ci below inner index cj.
RowUpTo(ci, cj) == {<<"inner", ci, b>> : b \in 0..(cj - 1)}

\* What the claim says is live while mk_arr is at loop indices (i, j):
\* before the middle allocation of i, after it, after the inner one of (i, j).
ExpectedLive ==
    CASE pc = "mk_i" -> RowsBefore(i)
      [] pc = "mk_j" -> RowsBefore(i) \cup {<<"middle", i, Undef>>} \cup RowUpTo(i, j)
      [] pc = "mk_k" -> RowsBefore(i) \cup {<<"middle", i, Undef>>} \cup RowUpTo(i, j + 1)

\* free_incomplete_arr has just been called by mk_arr.
CleanupCalled == pc = "fs_i" /\ fmode = "incomplete" /\ i_ = 0

\* The pointers a cleanup driven by the marker (ci, cj) finds in the
\* structure: arr, arr[a] for a <= ci, arr[a][b] for a < ci and b < y, and
\* arr[ci][b] for b < cj.
MarkerPointers(ci, cj) ==
    {arr}
        \cup {LoadPtr(heap, arr, a) : a \in 0..ci}
        \cup {LoadPtr(heap, LoadPtr(heap, arr, a), b) : a \in 0..(ci - 1), b \in 0..(y - 1)}
        \cup {LoadPtr(heap, LoadPtr(heap, arr, ci), b) : b \in 0..(cj - 1)}

\* C12: at every point of mk_arr, with its loops at (i, j), the live blocks
\* are exactly the outer block, the middle blocks of the indices below i
\* (and of i once allocated), the inner blocks (i', j') for i' < i and
\* j' < y, and the inner blocks (i, j') for j' < j (and (i, j) once
\* allocated); and at every cleanup call of mk_arr the marker describes
\* exactly the live blocks: they are the blocks of the rows below fi and the
\* inner blocks of fi below fj, with the middle block of fi if arr[fi] is
\* not null, and the pointers the marker leads to are these blocks or null.
C12_LiveSetMatchesMarker ==
    /\ pc \in {"mk_i", "mk_j", "mk_k"} =>
          /\ LiveTags = ExpectedLive
          /\ LiveBlocks = Blocks
          /\ Cardinality(LiveTags) = Len(heap)
    /\ CleanupCalled =>
          /\ fi = i /\ fi < x
          /\ fj <= y
          /\ LiveTags = RowsBefore(fi) \cup RowUpTo(fi, fj)
                \cup (IF LoadPtr(heap, arr, fi) = NULL THEN {}
                      ELSE {<<"middle", fi, Undef>>})
          /\ LiveBlocks = Blocks
          /\ Cardinality(LiveTags) = Len(heap)
          /\ MarkerPointers(fi, fj) \ {NULL} = LiveBlocks

\* C12 witness: the cleanup is called with marker (1, 1) in a 2 x 2
\* structure: six blocks are live, the middle block of index 1 among them.
C12_Witness ==
    /\ CleanupCalled /\ fi = 1 /\ fj = 1 /\ x = 2 /\ y = 2
    /\ Cardinality(LiveBlocks) = 6
    /\ <<"middle", 1, Undef>> \in LiveTags

\* The positions of the allocation count line in stdout.
CountLines == {n \in 1..Len(out) : IsAllocsLine(out[n])}

\* The number of allocation calls that had succeeded before event n.
AllocsBefore(n) ==
    Cardinality({m \in Events("malloc") : m < n /\ trace[m].p # NULL})

\* The count the claim gives for each way mk_arr can end: the outer
\* allocation failed, the middle one of fi failed (null was stored in
\* arr[fi]), the inner one of (fi, fj) failed, or none did.
ClaimedCount ==
    IF arr = NULL THEN 0
    ELSE IF fmode = "incomplete"
         THEN IF heap[arr].slot[fi + 1] = NULL
              THEN 1 + fi + fi * y
              ELSE 2 + fi + fi * y + fj
         ELSE 1 + x + x * y

\* C13 (as stated): in every run that gets past argument parsing the line
\* 'successfully allocated N times' is written exactly once, with N the
\* number of successful allocation calls.
C13_CountLineAlwaysWritten ==
    (Exited /\ z # Undef) =>
        /\ Cardinality(CountLines) = 1
        /\ \A n \in CountLines : out[n].args = <<ClaimedCount>>

\* C13 (amended): in every run that gets past argument parsing the count
\* line is written at most once, on success and on allocation failure
\* alike; it is missing only if its write failed, and then nothing at all
\* is written to stdout; when written it is the first line of stdout and
\* its N is the number of allocation calls that had succeeded by then: 0,
\* 1 + i + i*y, 2 + i + i*y + j or 1 + x + x*y.
C13_CountLineOnce ==
    (Exited /\ z # Undef) =>
        /\ CountLines \in {{}, {1}}
        /\ CountLines = {} <=> (out = <<>> /\ Cardinality(Events("out_fail")) = 1)
        /\ CountLines = {1} =>
              /\ out[1].args = <<ClaimedCount>>
              /\ \A n \in Events("out") :
                    (\A m \in Events("out") : n <= m) => AllocsBefore(n) = ClaimedCount
              /\ \A n \in Events("malloc") : \E m \in Events("out") : n < m

\* C13 witness: the inner allocation at (1, 1) failed with y = 2, after six
\* successful calls, and the run exited with the one line on stdout.
C13_Witness ==
    /\ Exited /\ fmode = "incomplete" /\ fi = 1 /\ fj = 1 /\ y = 2
    /\ out = <<Line(AllocsFmt, <<6>>)>>

----------------------------------------------------------------------------
(* free_and_exit, the cleanup routine of the earlier variant of the program
   (src/unnamed/part_000), run on its own from each of its call sites.  That
   variant's mk_arr allocates and links the blocks as the one above does and
   differs in the element values, which free_and_exit never reads: the
   elements of the inner blocks are left out here. *)

\* The addresses mk_arr's allocation order gives the middle block of outer
\* index a and the inner block (a, b), rows being yy long.
MidAddr(yy, a) == 2 + a * (1 + yy)

InnerAddr(yy, a, b) == MidAddr(yy, a) + 1 + b

\* The heap mk_arr leaves at a call of free_and_exit(arr, x, y, ci, cj, _):
\* call = "middle" after the middle allocation of ci failed (null is in
\* arr[ci]), "inner" after the inner one of (ci, cj) failed (null is in
\* arr[ci][cj]), "complete" once mk_arr has returned (ci = xx, cj = yy).
BuiltHeap(xx, yy, zz, ci, cj, call) ==
    LET n == 1 + ci * (1 + yy) + (IF call = "inner" THEN 1 + cj ELSE 0)
        OuterSlot(a) ==
            IF a < ci \/ (a = ci /\ call = "inner") THEN MidAddr(yy, a)
            ELSE IF a = ci /\ call = "middle" THEN NULL
            ELSE Undef
        MiddleSlot(a, b) ==
            IF a < ci \/ b < cj THEN InnerAddr(yy, a, b)
            ELSE IF b = cj THEN NULL
            ELSE Undef
        Block(p) ==
            IF p = 1
            THEN [NewBlock("outer", xx, Undef, Undef)
                     EXCEPT !.slot = [s \in 1..xx |-> OuterSlot(s - 1)]]
            ELSE LET a == (p - 2) \div (1 + yy)
                     r == (p - 2) % (1 + yy)
                 IN  IF r = 0
                     THEN [NewBlock("middle", yy, a, Undef)
                              EXCEPT !.slot = [s \in 1..yy |-> MiddleSlot(a, s - 1)]]
                     ELSE NewBlock("inner", zz, a, r - 1)
    IN  [p \in 1..n |-> Block(p)]

\* The call sites of free_and_exit and the markers they pass.
FaeCalls(xx, yy) ==
    {<<"complete", xx, yy>>}
        \cup {<<"middle", ci, 0>> : ci \in 0..(xx - 1)}
        \cup {<<"inner", ci, cj>> : ci \in 0..(xx - 1), cj \in 0..(yy - 1)}

InitFae ==
    \E xx \in 0..MaxDim, yy \in 0..MaxDim, zz \in 0..MaxDim :
      \E c \in FaeCalls(xx, yy) :
        /\ argv = <<Dec(xx), Dec(yy), Dec(zz)>>
        /\ argc = 4
        /\ x = xx /\ y = yy /\ z = zz
        /\ heap = BuiltHeap(xx, yy, zz, c[2], c[3], c[1])
        /\ allocs = Len(heap)
        /\ arr = 1
        /\ i = Undef /\ j = Undef /\ k = Undef
        /\ fi = c[2] /\ fj = c[3] /\ fmode = "and_exit"
        /\ i_ = 0 /\ j_ = Undef
        /\ ecode \in (IF c[1] = "complete" THEN {"EXIT_SUCCESS", "EXIT_FAILURE"}
                      ELSE {"EXIT_FAILURE"})
        /\ pc = "fae_i"
        /\ out = <<>>
        /\ err = <<>>
        /\ status = "running"
        /\ ub = FALSE
        /\ trace = <<>>
        /\ pw = NoFrame
        /\ rq = NoFrame

\* free_and_exit: the first loop is entered for i_.
FaeEnter ==
    /\ pc = "fae_i"
    /\ i_ < fi
    /\ j_' = 0
    /\ pc' = "fae_j"
    /\ UNCHANGED <<freeFrame, i_, heap, ub, trace>>

\* free_and_exit, first loop: free(arr[i_][j_]).
FaeFreeInner ==
    /\ pc = "fae_j"
    /\ j_ < y
    /\ DoFree(LoadPtr(heap, LoadPtr(heap, arr, i_), j_))
    /\ j_' = j_ + 1
    /\ UNCHANGED <<freeFrame, i_, pc>>

\* free_and_exit, first loop: the loop over j_ ends; free(arr[i_]); i_++.
FaeFreeMiddle ==
    /\ pc = "fae_j"
    /\ j_ >= y
    /\ DoFree(LoadPtr(heap, arr, i_))
    /\ i_' = i_ + 1
    /\ pc' = "fae_i"
    /\ UNCHANGED <<freeFrame, j_>>

\* Mutant of FaeGuard: the test i < x is left out, and the partial row is
\* released whatever the marker.
FaeGuard_Unguarded ==
    /\ pc = "fae_i"
    /\ i_ >= fi
    /\ j_' = 0 /\ pc' = "fae_ij"
    /\ UNCHANGED <<freeFrame, i_, heap, ub, trace>>

\* free_and_exit: the first loop ends; if (i < x).
FaeGuard ==
    /\ pc = "fae_i"
    /\ i_ >= fi
    /\ IF fi < x
       THEN j_' = 0 /\ pc' = "fae_ij"
       ELSE j_' = j_ /\ pc' = "free_arr"
    /\ UNCHANGED <<freeFrame, i_, heap, ub, trace>>

\* free_and_exit, under i < x: free(arr[i][j_]).
FaeFreeInnerAt ==
    /\ pc = "fae_ij"
    /\ j_ < fj
    /\ DoFree(LoadPtr(heap, LoadPtr(heap, arr, fi), j_))
    /\ j_' = j_ + 1
    /\ UNCHANGED <<freeFrame, i_, pc>>

\* free_and_exit, under i < x: the loop ends; free(arr[i]).
FaeFreeMiddleAt ==
    /\ pc = "fae_ij"
    /\ j_ >= fj
    /\ DoFree(LoadPtr(heap, arr, fi))
    /\ pc' = "free_arr"
    /\ UNCHANGED <<freeFrame, i_, j_>>

\* free_and_exit ends with free(arr); exit(ecode): FreeArr and Exit.
NextFae ==
    \/ FaeEnter
    \/ FaeFreeInner
    \/ FaeFreeMiddle
    \/ FaeGuard
    \/ FaeFreeInnerAt
    \/ FaeFreeMiddleAt
    \/ FreeArr
    \/ Exit

SpecFae == InitFae /\ [][NextFae]_vars

\* Without its elements.
Erase(h) ==
    [p \in 1..Len(h) |->
        IF h[p].kind = "inner"
        THEN [h[p] EXCEPT !.slot = [s \in 1..h[p].n |-> Fresh("inner")]]
        ELSE h[p]]

\* Under Spec: the heaps InitFae starts from are the ones mk_arr has built
\* at the corresponding points, the elements apart.
BuiltHeapIsMkArrs ==
    /\ CleanupCalled =>
          Erase(heap) = BuiltHeap(x, y, z, fi, fj,
                            IF LoadPtr(heap, arr, fi) = NULL THEN "middle" ELSE "inner")
    /\ pc = "print_allocs" => Erase(heap) = BuiltHeap(x, y, z, x, y, "complete")

\* The call free_and_exit(arr, x, y, x, y, _) is under way or done.
FullTeardown == fmode = "and_exit" /\ fi = x /\ fj = y

\* C14: free_and_exit called with the post-completion marker i = x, j = y
\* reads no slot outside the allocated blocks (no step of it is undefined;
\* the slot at outer index x does not exist), and when it exits it has
\* released the outer block, the x middle blocks and the x*y inner blocks,
\* each by exactly one free call.
C14_FullTeardownMarker ==
    FullTeardown =>
        /\ ~ub
        /\ Len(heap) = 1 + x + x * y
        /\ Exited =>
              /\ AllReleasedOnce
              /\ Cardinality(Events("free")) = 1 + x + x * y

\* C14 witness: free_and_exit(arr, 2, 2, 2, 2, EXIT_SUCCESS) has exited,
\* seven free calls made.
C14_Witness ==
    /\ Exited /\ FullTeardown /\ x = 2 /\ y = 2
    /\ Cardinality(Events("free")) = 7
    /\ status = "EXIT_SUCCESS"

----------------------------------------------------------------------------
(* The sizes mk_arr requests, computed in size_t: the three malloc calls
   and the first store into each block, run on their own for extents of
   any magnitude (as bytes, like elem: size_t is as wide as unsigned
   long). *)

\* sizeof(elem **) and sizeof(elem *); sizeof(elem) is ElemBytes.
PtrBytes == 8

RECURSIVE SizeOfDigits(_, _)
\* The value strtoumax gives an in-range digit string, converted to size_t.
SizeOfDigits(ds, acc) ==
    IF ds = <<>> THEN acc
    ELSE LET cols == [n \in Bytes |->
                        acc[n] * 10 + (IF n = 1 THEN DigitOf(ds[1]) ELSE 0)]
             a1 == Carry(cols, 1, 0, <<>>)
         IN  IF a1 = a1 THEN SizeOfDigits(Tail(ds), a1) ELSE <<>>

\* n * unit in size_t, that is, modulo 2^64.
SizeMul(n, unit) == Carry([b \in Bytes |-> n[b] * unit], 1, 0, <<>>)

RECURSIVE SizeLessFrom(_, _, _)
\* a < b, compared from the top byte down to byte n.
SizeLessFrom(a, b, n) ==
    IF n = 0 THEN FALSE
    ELSE IF a[n] # b[n] THEN a[n] < b[n]
    ELSE SizeLessFrom(a, b, n - 1)

SizeLess(a, b) == SizeLessFrom(a, b, ElemBytes)

SizeZero == ElemLit(0)

\* Numerals get_arg_size_t accepts: 0, 1, 2, 3, 2^61, 2^61 + 1, 2^63 and
\* 2^64 - 1.
SizeArgs ==
    { <<"0">>, <<"1">>, <<"2">>, <<"3">>,
      <<"2","3","0","5","8","4","3","0","0","9","2","1","3","6","9","3","9","5","2">>,
      <<"2","3","0","5","8","4","3","0","0","9","2","1","3","6","9","3","9","5","3">>,
      <<"9","2","2","3","3","7","2","0","3","6","8","5","4","7","7","5","8","0","8">>,
      <<"1","8","4","4","6","7","4","4","0","7","3","7","0","9","5","5","1","6","1","5">> }

\* The rest of the program's state when one function's frame is run on its
\* own: main's variables have no value yet and nothing has been allocated
\* or written.
OnlyFrame(at) ==
    /\ pc = at
    /\ x = Undef /\ y = Undef /\ z = Undef
    /\ allocs = Undef
    /\ arr = Undef
    /\ heap = <<>>
    /\ i = Undef /\ j = Undef /\ k = Undef
    /\ fi = Undef /\ fj = Undef /\ fmode = "none"
    /\ i_ = Undef /\ j_ = Undef
    /\ ecode = "none"
    /\ out = <<>>
    /\ err = <<>>
    /\ status = "running"
    /\ ub = FALSE
    /\ trace = <<>>

\* mk_arr is entered with the extents the three numerals denote; none of
\* them is out of strtoumax's range.
InitSize ==
    /\ \E sx \in SizeArgs, sy \in SizeArgs, sz \in SizeArgs :
         /\ ~Overflows(sx) /\ ~Overflows(sy) /\ ~Overflows(sz)
         /\ argv = <<sx, sy, sz>>
         /\ rq = [pc |-> "outer",
                  x |-> SizeOfDigits(sx, SizeZero),
                  y |-> SizeOfDigits(sy, SizeZero),
                  z |-> SizeOfDigits(sz, SizeZero),
                  outer |-> SizeZero, middle |-> SizeZero, inner |-> SizeZero,
                  oob |-> FALSE]
    /\ argc = 4
    /\ OnlyFrame("mk_arr")
    /\ pw = NoFrame

progVars == <<argc, argv, pc, x, y, z, allocs, arr, heap, i, j, k, fi, fj,
              fmode, i_, j_, ecode, out, err, status, ub, trace>>

\* arr = malloc(x * sizeof(elem **)), returning a block of that size; the
\* loop over i is entered if 0 < x.
SizeOuter ==
    /\ rq # NoFrame /\ rq.pc = "outer"
    /\ rq' = [rq EXCEPT !.outer = SizeMul(rq.x, PtrBytes),
                        !.pc = IF rq.x = SizeZero THEN "done" ELSE "middle"]
    /\ UNCHANGED <<progVars, pw>>

\* arr[0] = malloc(y * sizeof(elem *)): the store into the outer block is
\* past its end unless the block has sizeof(elem **) bytes; the loop over j
\* is entered if 0 < y.
SizeMiddle ==
    /\ rq # NoFrame /\ rq.pc = "middle"
    /\ rq' = [rq EXCEPT !.middle = SizeMul(rq.y, PtrBytes),
                        !.oob = @ \/ SizeLess(rq.outer, ElemLit(PtrBytes)),
                        !.pc = IF rq.y = SizeZero THEN "done" ELSE "inner"]
    /\ UNCHANGED <<progVars, pw>>

\* arr[0][0] = malloc(z * sizeof(elem)): the store into the middle block;
\* the loop over k is entered if 0 < z.
SizeInner ==
    /\ rq # NoFrame /\ rq.pc = "inner"
    /\ rq' = [rq EXCEPT !.inner = SizeMul(rq.z, ElemBytes),
                        !.oob = @ \/ SizeLess(rq.middle, ElemLit(PtrBytes)),
                        !.pc = IF rq.z = SizeZero THEN "done" ELSE "fill"]
    /\ UNCHANGED <<progVars, pw>>

\* arr[0][0][0] = ...: the store into the inner block.
SizeFill ==
    /\ rq # NoFrame /\ rq.pc = "fill"
    /\ rq' = [rq EXCEPT !.oob = @ \/ SizeLess(rq.inner, ElemLit(ElemBytes)),
                        !.pc = "done"]
    /\ UNCHANGED <<progVars, pw>>

NextSize == SizeOuter \/ SizeMiddle \/ SizeInner \/ SizeFill

SpecSize == InitSize /\ [][NextSize]_vars

\* C15: for every x, y, z representable in size_t the byte size requested
\* for each block is large enough for every slot mk_arr then stores into it:
\* no store arr[i], arr[i][j] or arr[i][j][k] goes past the end of its block
\* (here: the first store into each block, at index 0).
C15_RequestHoldsStores == rq # NoFrame => ~rq.oob

\* What does hold: a store at index 0 is past the end of its block only if
\* the extent of that block is 2^61 or more, so that its size wrapped.
SmallExtentsFit ==
    rq # NoFrame =>
        (rq.oob => \E e \in {rq.x, rq.y, rq.z} : e[ElemBytes] >= 32)

\* What block b was allocated as.
Tag(b) == <<heap[b].kind, heap[b].ci, heap[b].cj>>

\* The block the claim's order puts right after the one tagged t: the outer
\* block is followed by the middle block of 0, the middle block of i by the
\* inner block (i, 0), the inner block (i, j) by (i, j + 1), and the last
\* block of outer index i by the middle block of i + 1.
NextTag(t) ==
    IF t[1] = "outer" THEN <<"middle", 0, Undef>>
    ELSE IF t[1] = "middle"
         THEN IF y > 0 THEN <<"inner", t[2], 0>> ELSE <<"middle", t[2] + 1, Undef>>
         ELSE IF t[3] + 1 < y THEN <<"inner", t[2], t[3] + 1>>
              ELSE <<"middle", t[2] + 1, Undef>>

\* The elements of block b written so far.
Written(b) == {s \in 1..heap[b].n : heap[b].slot[s] # Fresh("inner")}

\* The last allocation call so far, as an event of the history.
LastMalloc == CHOOSE n \in Events("malloc") : \A m \in Events("malloc") : m <= n

\* C16: construction goes outer, middle, inner in increasing index order:
\* addresses being handed out in the order of the successful allocation
\* calls, the first block is the outer one and each later block is the
\* successor of the one before it (the middle block of i before every inner
\* block (i, j), the inner block (i, j) before (i, j + 1) and before every
\* block of i + 1); and the z elements of an inner block are written after
\* its allocation succeeds and before the next allocation call: in the fill
\* loop the last allocation call is the one that returned the inner block
\* (i, j) and the k events since are the stores into it, and at every
\* allocation call, successful or not, and at the return of mk_arr, every
\* inner block allocated before has all its z elements.
C16_ConstructionOrder ==
    (pc \in {"mk_i", "mk_j", "mk_k", "print_allocs"} \/ CleanupCalled) =>
        /\ heap # <<>> => Tag(1) = <<"outer", Undef, Undef>>
        /\ \A b \in 2..Len(heap) : Tag(b) = NextTag(Tag(b - 1))
        /\ \A b \in BlocksOf("inner") :
              IF b = Len(heap) /\ pc = "mk_k"
              THEN Written(b) = 1..k
              ELSE Written(b) = 1..z
        /\ pc = "mk_k" =>
              /\ trace[LastMalloc].p = Len(heap)
              /\ Len(trace) = LastMalloc + k
              /\ \A n \in (LastMalloc + 1)..Len(trace) :
                    trace[n] = Ev("store", Len(heap))

\* C16 witness: mk_arr has just written the last element of the last inner
\* block, (1, 1), of a 2 x 2 x 2 structure.
C16_Witness ==
    /\ pc = "mk_k" /\ i = 1 /\ j = 1 /\ k = 2 /\ z = 2 /\ x = 2 /\ y = 2
    /\ Len(heap) = 7 /\ Written(7) = {1, 2}
    /\ trace[Len(trace)] = Ev("store", 7)

----------------------------------------------------------------------------
(* elem_pow run on its own, one round of its loop at a time, for bases of
   any magnitude. *)

\* Exponents 0..MaxExp are run for every base.
MaxExp == 12

\* y has 64 bits and loses one in every round.
MaxRounds == 64

\* Exponents at which 2^e reaches and passes the width of elem.
WideExps == {8 * ElemBytes - 1, 8 * ElemBytes, 8 * ElemBytes + 1}

\* Bases: 0, 1, 2, 3, 5, 10, 255, 256, 2^32 + 1, 2^63, 0x0123456789abcdef
\* and 2^64 - 1.
PowBases ==
    {ElemLit(0), ElemLit(1), ElemLit(2), ElemLit(3), ElemLit(5), ElemLit(10),
     ElemLit(255),
     <<0, 1, 0, 0, 0, 0, 0, 0>>,
     <<1, 0, 0, 0, 1, 0, 0, 0>>,
     <<0, 0, 0, 0, 0, 0, 0, 128>>,
     <<239, 205, 171, 137, 103, 69, 35, 1>>,
     <<255, 255, 255, 255, 255, 255, 255, 255>>}

\* elem_pow(b, e) is entered and result = 1 is done.  b and e keep the
\* arguments, rounds counts the rounds of the loop.
InitPow ==
    /\ \E b \in PowBases, e \in (0..MaxExp) \cup WideExps :
         pw = [pc |-> "loop", x |-> b, y |-> e, result |-> ElemLit(1),
               b |-> b, e |-> e, rounds |-> 0]
    /\ rq = NoFrame
    /\ argv = <<>>
    /\ argc = 1
    /\ OnlyFrame("elem_pow")

\* Mutant of elem_pow_round: x is squared before it is multiplied in.
elem_pow_round_SquareFirst(f) ==
    LET x1 == ElemMul(f.x, f.x)
        r1 == IF f.y % 2 = 1 THEN ElemMul(f.result, x1) ELSE f.result
        y1 == f.y \div 2
    IN  [f EXCEPT !.result = r1, !.y = y1, !.x = x1,
                  !.pc = IF y1 = 0 THEN "done" ELSE "loop",
                  !.rounds = @ + 1]

\* Mutant of elem_pow_round: y >>= 1 is left out.
elem_pow_round_NoShift(f) ==
    LET r1 == IF f.y % 2 = 1 THEN ElemMul(f.result, f.x) ELSE f.result
        y1 == f.y
    IN  [f EXCEPT !.result = r1, !.y = y1,
                  !.x = IF y1 = 0 THEN @ ELSE ElemMul(f.x, f.x),
                  !.pc = IF y1 = 0 THEN "done" ELSE "loop",
                  !.rounds = @ + 1]

\* One round of while (true): if ((y & 1) == 1) result *= x; y >>= 1;
\* if (y == 0) break; x *= x.  After the break elem_pow returns result.
elem_pow_round(f) ==
    LET r1 == IF f.y % 2 = 1 THEN ElemMul(f.result, f.x) ELSE f.result
        y1 == f.y \div 2
    IN  [f EXCEPT !.result = r1, !.y = y1,
                  !.x = IF y1 = 0 THEN @ ELSE ElemMul(f.x, f.x),
                  !.pc = IF y1 = 0 THEN "done" ELSE "loop",
                  !.rounds = @ + 1]

PowRound ==
    /\ pw # NoFrame /\ pw.pc = "loop"
    /\ pw.rounds < MaxRounds
    /\ pw' = elem_pow_round(pw)
    /\ UNCHANGED <<progVars, rq>>

NextPow == PowRound

SpecPow == InitPow /\ [][NextPow]_vars

\* elem_pow has returned.
PowDone == pw # NoFrame /\ pw.pc = "done"

RECURSIVE RefTimesAny(_, _)
\* m * a mod 2^64 for a number m >= 0, by doubling and adding.  (Here and
\* below a test v = v is always true; it makes TLC compute v at once.)
RefTimesAny(m, a) ==
    IF m = 0 THEN ElemLit(0)
    ELSE LET h == RefTimesAny(m \div 2, a)
         IN  IF h = h
             THEN IF m % 2 = 1 THEN RefAdd(RefAdd(h, h), a) ELSE RefAdd(h, h)
             ELSE <<>>

\* 256^s * a mod 2^64: the bytes move up s places.
RefShift(a, s) == [n \in 1..s |-> 0] \o SubSeq(a, 1, ElemBytes - s)

RECURSIVE RefMulFrom(_, _, _, _)
\* acc plus the sum over the bytes n.. of b of b[n] * 256^(n-1) * a, mod
\* 2^64.
RefMulFrom(a, b, n, acc) ==
    IF n > ElemBytes THEN acc
    ELSE LET t == RefTimesAny(b[n], a)
             acc1 == RefAdd(acc, RefShift(t, n - 1))
         IN  IF t = t /\ acc1 = acc1 THEN RefMulFrom(a, b, n + 1, acc1)
             ELSE <<>>

\* a * b mod 2^64, computed without ElemMul.
RefMul(a, b) == RefMulFrom(a, b, 1, ElemLit(0))

RECURSIVE RefPowFrom(_, _, _)
\* acc times e factors b, mod 2^64, one factor at a time.
RefPowFrom(b, e, acc) ==
    IF e = 0 THEN acc
    ELSE LET acc1 == RefMul(b, acc)
         IN  IF acc1 = acc1 THEN RefPowFrom(b, e - 1, acc1) ELSE <<>>

\* b^e mod 2^64 by its definition: the product of e factors b, 1 for e = 0.
RefPow(b, e) == RefPowFrom(b, e, ElemLit(1))

\* C17: elem_pow(b, e) returns b^e reduced modulo 2^64 for every base b and
\* every exponent e >= 0 (1 for e = 0): the result the loop returns, and
\* the value the operator elem_pow gives mk_arr, both equal the product of
\* e factors b.
C17_PowIsPower ==
    PowDone =>
        /\ pw.result = RefPow(pw.b, pw.e)
        /\ elem_pow(pw.b, pw.e) = pw.result
        /\ pw.e = 0 => pw.result = ElemLit(1)

\* C17 witness: elem_pow(0x0123456789abcdef, 11) has returned, after four
\* rounds, a value that is not the base and not 0 or 1.
C17_Witness ==
    /\ PowDone /\ pw.b = <<239, 205, 171, 137, 103, 69, 35, 1>> /\ pw.e = 11
    /\ pw.rounds = 4
    /\ pw.result \notin {pw.b, ElemLit(0), ElemLit(1)}

\* The last event of the history, if any, is of one of the kinds es.
LastEventIn(es) == trace # <<>> /\ trace[Len(trace)].e \in es

\* C18: no block is read or written after it has been released: no step is
\* undefined (a load or a store through a released block would be); when a
\* middle block is released the inner blocks of its outer index have been
\* released already, and when the outer block is released every other block
\* has been; and once a free call has been made, every later event is a
\* free call or the exit: no element is stored, read or printed any more.
C18_NoUseAfterRelease ==
    /\ ~ub
    /\ (LastEventIn({"free"}) /\ trace[Len(trace)].p # NULL) =>
          LET p == trace[Len(trace)].p
          IN  /\ p \in Blocks /\ ~heap[p].live /\ heap[p].frees = 1
              /\ heap[p].kind = "middle" =>
                    \A b \in BlocksOf("inner") :
                        heap[b].ci = heap[p].ci => ~heap[b].live
              /\ heap[p].kind = "outer" => LiveBlocks = {}
    /\ Events("free") # {} =>
          /\ LastEventIn({"free", "exit"})
          /\ pc \in {"fs_i", "fs_j", "fi_j", "free_arr", "exit", "exited"}

\* C18 witness: the outer block of a 2 x 2 structure has just been released,
\* last of seven, after a successful run.
C18_Witness ==
    /\ pc = "exit" /\ ecode = "EXIT_SUCCESS" /\ x = 2 /\ y = 2 /\ z = 2
    /\ trace[Len(trace)] = Ev("free", arr)
    /\ Cardinality(Events("free")) = 7
    /\ Events("read") # {}

\* The control points from the return of mk_arr to the cleanup call:
\* print_allocs in main, and print_arr.
PrintPcs == {"print_allocs", "pr_i", "pr_j", "pr_k"}

\* print_arr is about to read arr[i][j][k].
AboutToRead == pc = "pr_k" /\ k < z

\* C19: printing is read-only and reads only populated data: every step
\* taken between the return of mk_arr and the start of the cleanup leaves
\* every element value, every pointer slot and every block's allocation
\* status as it was; and every element print_arr is about to read lies in
\* a live inner block reached through live blocks, and mk_arr has stored a
\* value in it.
C19_PrintingReadOnly ==
    /\ [](AboutToRead =>
            LET inner == LoadPtr(heap, LoadPtr(heap, arr, i), j)
            IN  /\ Readable(heap, inner, k)
                /\ heap[inner].slot[k + 1] # Fresh("inner")
                /\ heap[inner].slot[k + 1] = ElemValue(i, j, k)
                /\ \E n \in Events("store") : trace[n].p = inner)
    /\ [][(pc \in PrintPcs) => (heap' = heap /\ arr' = arr /\ allocs' = allocs)]_vars

\* C19 witness: print_arr has read and printed all eight elements of a
\* 2 x 2 x 2 structure and no block has been released.
C19_Witness ==
    /\ pc = "pr_k" /\ i = 1 /\ j = 1 /\ k = 2 /\ x = 2 /\ y = 2 /\ z = 2
    /\ Cardinality(Events("read")) = 8 /\ Len(out) = 9
    /\ LiveBlocks = Blocks /\ Len(heap) = 7

----------------------------------------------------------------------------
(* Termination.  The program is one sequential process that is never
   suspended for good: a step that can be taken is eventually taken.  The
   runs are those of the whole program and, because mk_arr's model computes
   elem_pow in one step, those of elem_pow's loop on its own. *)

InitTerm == Init \/ InitPow

NextTerm == Next \/ NextPow

\* A step of NextTerm can be taken: the program has not exited, or the loop
\* of elem_pow has not been left.  (This is ENABLED <<NextTerm>>_vars written
\* out from the guards of the actions: each control point before the exit
\* has a step for every value of its test.)
Running ==
    IF pw = NoFrame THEN pc # "exited"
    ELSE pw.pc = "loop" /\ pw.rounds < MaxRounds

\* WF_vars(NextTerm), by its definition, with the enabling condition as
\* above: a run does not stay able to step for ever without stepping.
Fairness == []<>(~Running) \/ []<><<NextTerm>>_vars

SpecTerm == InitTerm /\ [][NextTerm]_vars /\ Fairness

\* floor(log2 n) for 1 <= n < 2^30.
Log2Floor(n) == CHOOSE m \in 0..29 : 2^m <= n /\ n < 2^(m + 1)

\* Every loop index lies between 0 and the extent that bounds its loop.
LoopsBounded ==
    /\ pc \in {"mk_i", "mk_j", "mk_k", "pr_i", "pr_j", "pr_k"} => i \in 0..x
    /\ pc \in {"mk_j", "mk_k", "pr_j", "pr_k"} => i < x /\ j \in 0..y
    /\ pc \in {"mk_k", "pr_k"} => j < y /\ k \in 0..z
    /\ pc \in {"fs_i", "fs_j", "fi_j"} => i_ \in 0..fi /\ fi <= x
    /\ pc = "fs_j" => i_ < fi /\ j_ \in 0..y
    /\ pc = "fi_j" => j_ \in 0..fj /\ fj <= y

\* C20: for all x, y, z and every pattern of allocation and output
\* failures the program eventually reaches its exit, and elem_pow
\* eventually returns, for every exponent e after floor(log2 e) + 1 rounds
\* of its loop if e > 0 and after one round if e = 0; every allocation,
\* print and cleanup loop runs with its index between 0 and x, y or z; and
\* no step is taken after the exit or after the return of elem_pow.
C20_Terminates ==
    /\ <>(Exited \/ PowDone)
    /\ [](PowDone =>
            pw.rounds = IF pw.e = 0 THEN 1 ELSE Log2Floor(pw.e) + 1)
    /\ []LoopsBounded
    /\ [][Running]_vars

\* C20 witness: a 2 x 2 x 2 run whose last element line could not be
\* written has reached its exit, all seven blocks released.
C20_Witness ==
    /\ Exited /\ x = 2 /\ y = 2 /\ z = 2
    /\ i = 1 /\ j = 1 /\ k = 1 /\ Events("out_fail") # {}
    /\ Cardinality(Events("free")) = 7

====
